---- MODULE Spec2Model ----
(***************************************************************************)
(* Model of Scripts/examples/example_agent.py:                             *)
(*                                                                         *)
(*   def speak(text: str) -> None:                                         *)
(*       subprocess.run(["openwhisper-speak", text], check=True)           *)
(*                                                                         *)
(*   if __name__ == "__main__":                                            *)
(*       speak("Hello from Python AI agent")                               *)
(*                                                                         *)
(* Strings are sequences of characters.  subprocess.run is modelled by its *)
(* POSIX behaviour with shell=False, timeout=None: the argument list is    *)
(* converted to C strings (an embedded NUL is rejected with ValueError     *)
(* before any process exists), the child is forked and exec'ed (an exec    *)
(* failure surfaces as an OSError subclass), the parent blocks until the   *)
(* child has exited, and check=True turns a non-zero return code into      *)
(* CalledProcessError.  Asynchronous signals delivered to the parent       *)
(* (KeyboardInterrupt) are outside the model.                              *)
(***************************************************************************)
EXTENDS Integers, Sequences, FiniteSets, TLC

VARIABLES
    mode,       \* "main": the file is run as a script; "import": it is imported
    pc,         \* position of the single thread of control
    text,       \* argument of the current (or last) call to speak
    child,      \* child process of the current (or last) call to speak
    alive,      \* number of child processes launched by speak still running
    ncalls,     \* number of calls to speak entered so far
    launches,   \* number of launch attempts (Popen constructions) so far
    calls,      \* log of completed calls: launch outcome, return code, result
    program     \* "running", or how the interpreter ended: "exit0" / "exit1"

vars == <<mode, pc, text, child, alive, ncalls, launches, calls, program>>

----------------------------------------------------------------------------
(* Bounds *)

MaxLen == 2      \* longest enumerated text
MaxCalls == 2    \* calls to speak made by an importing caller

----------------------------------------------------------------------------
(* Strings *)

NUL == "NUL"

Alphabet == {"a", " ", "\"", NUL}

ExecutableName ==
    <<"o", "p", "e", "n", "w", "h", "i", "s", "p", "e", "r", "-",
      "s", "p", "e", "a", "k">>

MainText ==
    <<"H", "e", "l", "l", "o", " ", "f", "r", "o", "m", " ", "P", "y", "t",
      "h", "o", "n", " ", "A", "I", " ", "a", "g", "e", "n", "t">>

Hello == <<"h", "e", "l", "l", "o">>

Quoted == <<"q", "u", "o", "\"", "t", "e", "d">>

MultiWord ==
    <<"m", "u", "l", "t", "i", " ", "w", "o", "r", "d", " ",
      "s", "e", "n", "t", "e", "n", "c", "e">>

Texts ==
    UNION {[1..n -> Alphabet] : n \in 0..MaxLen}
        \cup {Hello, Quoted, MultiWord, MainText}

HasNul(s) == \E i \in 1..Len(s) : s[i] = NUL

\* The C string the exec'ed program sees for an argument: the characters
\* before the first NUL.
RECURSIVE CStr(_)
CStr(s) ==
    IF s = <<>> \/ Head(s) = NUL THEN <<>> ELSE <<Head(s)>> \o CStr(Tail(s))

\* str.split(): maximal runs of non-blank characters.
RECURSIVE SplitWords(_, _)
SplitWords(s, word) ==
    IF s = <<>> THEN (IF word = <<>> THEN <<>> ELSE <<word>>)
    ELSE IF Head(s) = " "
         THEN (IF word = <<>> THEN <<>> ELSE <<word>>) \o SplitWords(Tail(s), <<>>)
         ELSE SplitWords(Tail(s), Append(word, Head(s)))

----------------------------------------------------------------------------
(* speak: the pieces of subprocess.run(["openwhisper-speak", text], check=True) *)

ArgsSplit(t) == <<ExecutableName>> \o SplitWords(t, <<>>)

\* The argument list built on line 4.
Args(t) == <<ExecutableName, t>>

\* execvp hands every argument to the new program as a C string.
ExecArgv(args) == [i \in 1..Len(args) |-> CStr(args[i])]

Environments == {"ok", "ENOENT", "EACCES"}

LaunchErrorAsCalledProcessError(args, env) ==
    IF \E i \in 1..Len(args) : HasNul(args[i]) THEN "CalledProcessError"
    ELSE IF env # "ok" THEN "CalledProcessError"
    ELSE "none"

\* Popen(args): the exception raised by the launch, "none" if the child runs.
LaunchError(args, env) ==
    IF \E i \in 1..Len(args) : HasNul(args[i]) THEN "ValueError"
    ELSE IF env = "ENOENT" THEN "FileNotFoundError"
    ELSE IF env = "EACCES" THEN "PermissionError"
    ELSE "none"

ReturnCodes == {0, 1, 255, -9}

WaitWithTimeout(c) == TRUE

WaitForever(c) == FALSE

\* process.communicate() with timeout=None returns once the child has exited.
WaitDone(c) == c.status = "exited"

CheckOff(rc) == "None"

CheckInverted(rc) == IF rc = 0 THEN "CalledProcessError" ELSE "None"

\* retcode = process.poll(); if check and retcode: raise CalledProcessError
CheckReturncode(rc) == IF rc # 0 THEN "CalledProcessError" ELSE "None"

Suppress(exc) == "None"

\* speak has no try/except: what its caller observes is what run() raised.
Propagate(exc) == exc

RetryOnError(result, m) ==
    IF result # "None" THEN "run" ELSE IF m = "main" THEN "exit" ELSE "idle"

\* Where control goes when the call to speak on line 7 (script) or in the
\* importing caller completes with the given result.
AfterCall(result, m) == IF m = "main" THEN "exit" ELSE "idle"

MainCatches(result) == "exit0"

\* An exception that reaches the top level ends the interpreter with a
\* traceback and status 1; falling off the end of the script is status 0.
ExitStatus(result) == IF result = "None" THEN "exit0" ELSE "exit1"

ProgramAfterCall(result, m) ==
    IF m = "main" /\ AfterCall(result, m) = "exit"
    THEN ExitStatus(result) ELSE "running"

NoChild == [argv |-> <<>>, status |-> "none", rc |-> 0]

----------------------------------------------------------------------------
(* State machine *)

Init ==
    /\ mode \in {"main", "import"}
    /\ pc = "module"
    /\ text = <<>>
    /\ child = NoChild
    /\ alive = 0
    /\ ncalls = 0
    /\ launches = 0
    /\ calls = <<>>
    /\ program = "running"

\* Lines 6-7, __name__ == "__main__": the script calls speak once.
RunAsMain ==
    /\ pc = "module"
    /\ mode = "main"
    /\ pc' = "run"
    /\ text' = MainText
    /\ ncalls' = ncalls + 1
    /\ UNCHANGED <<mode, child, alive, launches, calls, program>>

\* Line 6, __name__ # "__main__": importing the module only defines speak.
ImportModule ==
    /\ pc = "module"
    /\ mode = "import"
    /\ pc' = "idle"
    /\ UNCHANGED <<mode, text, child, alive, ncalls, launches, calls, program>>

\* Line 3: an importing caller enters speak(t).
speak(t) ==
    /\ pc = "idle"
    /\ ncalls < MaxCalls
    /\ pc' = "run"
    /\ text' = t
    /\ child' = NoChild
    /\ ncalls' = ncalls + 1
    /\ UNCHANGED <<mode, alive, launches, calls, program>>

\* Line 4, Popen raises: no child runs, the exception leaves speak.
PopenFails(env) ==
    /\ pc = "run"
    /\ LaunchError(Args(text), env) # "none"
    /\ LET result == Propagate(LaunchError(Args(text), env)) IN
        /\ calls' = Append(calls,
              [launch |-> LaunchError(Args(text), env), rc |-> 0,
               result |-> result])
        /\ pc' = AfterCall(result, mode)
        /\ program' = ProgramAfterCall(result, mode)
    /\ launches' = launches + 1
    /\ UNCHANGED <<mode, text, child, alive, ncalls>>

\* Line 4, Popen succeeds: the child runs with the exec'ed argument vector.
PopenOk(env) ==
    /\ pc = "run"
    /\ LaunchError(Args(text), env) = "none"
    /\ child' = [argv |-> ExecArgv(Args(text)), status |-> "running", rc |-> 0]
    /\ alive' = alive + 1
    /\ launches' = launches + 1
    /\ pc' = "wait"
    /\ UNCHANGED <<mode, text, ncalls, calls, program>>

\* The external program terminates with some status.
ChildExit(rc) ==
    /\ child.status = "running"
    /\ child' = [child EXCEPT !.status = "exited", !.rc = rc]
    /\ alive' = alive - 1
    /\ UNCHANGED <<mode, pc, text, ncalls, launches, calls, program>>

\* Line 4, process.communicate() returns.
WaitReturns ==
    /\ pc = "wait"
    /\ WaitDone(child)
    /\ pc' = "check"
    /\ UNCHANGED <<mode, text, child, alive, ncalls, launches, calls, program>>

\* Line 4, check=True; then speak returns None or the exception leaves it.
CheckAndReturn ==
    /\ pc = "check"
    /\ LET raised == CheckReturncode(child.rc)
           result == IF raised = "None" THEN "None" ELSE Propagate(raised) IN
        /\ calls' = Append(calls,
              [launch |-> "ok", rc |-> child.rc, result |-> result])
        /\ pc' = AfterCall(result, mode)
        /\ program' = ProgramAfterCall(result, mode)
    /\ UNCHANGED <<mode, text, child, alive, ncalls, launches>>

Next ==
    \/ RunAsMain
    \/ ImportModule
    \/ \E t \in Texts : speak(t)
    \/ \E env \in Environments : PopenFails(env)
    \/ \E env \in Environments : PopenOk(env)
    \/ \E rc \in ReturnCodes : ChildExit(rc)
    \/ WaitReturns
    \/ CheckAndReturn

Spec == Init /\ [][Next]_vars

\* The interpreter keeps executing speak; the external program is assumed to
\* terminate once launched.
FairSpec ==
    /\ Spec
    /\ WF_vars(\E env \in Environments : PopenFails(env))
    /\ WF_vars(\E env \in Environments : PopenOk(env))
    /\ WF_vars(\E rc \in ReturnCodes : ChildExit(rc))
    /\ WF_vars(WaitReturns)
    /\ WF_vars(CheckAndReturn)

----------------------------------------------------------------------------
(* Properties *)

Completed == pc \in {"idle", "exit"} /\ calls # <<>>

InCall == pc \in {"run", "wait", "check"}

Last == calls[Len(calls)]

LaunchErrors == {"FileNotFoundError", "PermissionError", "ValueError"}

\* C1: whenever the executable was launched and exited with status 0, the
\* call returned normally with no value, whatever the text was.
C1_ExitZeroReturnsNone ==
    \A i \in 1..Len(calls) :
        (calls[i].launch = "ok" /\ calls[i].rc = 0) => calls[i].result = "None"

C1_Witness ==
    /\ Completed
    /\ text = <<" ", "\"">>
    /\ Last.launch = "ok" /\ Last.rc = 0 /\ Last.result = "None"

\* C2: whenever the executable was launched and exited with a non-zero
\* status, the caller of speak observes CalledProcessError (the code's
\* external-process error) and nothing else; it is never a normal return.
C2_NonZeroRaises ==
    \A i \in 1..Len(calls) :
        (calls[i].launch = "ok" /\ calls[i].rc # 0)
            => calls[i].result = "CalledProcessError"

C2_Witness ==
    /\ Completed
    /\ Last.launch = "ok" /\ Last.rc = -9 /\ Last.result = "CalledProcessError"

\* C3 as stated: a call whose launch failed raises the same error kind as a
\* call whose child exited non-zero.
C3_SameKindAsNonZeroExit ==
    \A i, j \in 1..Len(calls) :
        (calls[i].launch # "ok" /\ calls[j].launch = "ok" /\ calls[j].rc # 0)
            => calls[i].result = calls[j].result

\* C3 amended: a call whose launch failed raises the launch's own error
\* (FileNotFoundError, PermissionError or ValueError), never a normal return
\* and never the CalledProcessError of a non-zero exit.
C3_LaunchFailureRaisesLaunchError ==
    \A i \in 1..Len(calls) :
        calls[i].launch # "ok"
            => /\ calls[i].result = calls[i].launch
               /\ calls[i].result \in LaunchErrors

C3_Witness ==
    /\ Len(calls) = 2
    /\ calls[1].launch = "FileNotFoundError"
    /\ calls[1].result = "FileNotFoundError"
    /\ calls[2].launch = "ok" /\ calls[2].result = "CalledProcessError"

\* C4: the argument vector of a launched child is exactly the executable
\* name followed by the text of the call, as one unmodified argument.
C4_ArgvIsNameThenText ==
    child.status # "none"
        => /\ Len(child.argv) = 2
           /\ child.argv[1] = ExecutableName
           /\ child.argv[2] = text

C4_Witness ==
    /\ child.status = "running"
    /\ text = MultiWord
    /\ child.argv = <<ExecutableName, MultiWord>>

\* C5: while the child is running, speak stays blocked: the next step
\* neither leaves the wait nor completes the call.
C5_BlockedWhileChildRuns ==
    [][child.status = "running" => (pc' = "wait" /\ calls' = calls)]_vars

C5_Witness == pc = "wait" /\ child.status = "running"

\* C6: every call makes exactly one launch attempt: the attempts made so far
\* equal the calls entered, less the call that has not reached Popen yet.
C6_OneLaunchPerCall ==
    /\ launches = ncalls - (IF pc = "run" THEN 1 ELSE 0)
    /\ ~InCall => (launches = Len(calls) /\ ncalls = Len(calls))

C6_Witness ==
    /\ Completed
    /\ Len(calls) = 2 /\ launches = 2
    /\ calls[1].result # "None"

\* C7: every completed call ended either in a normal return or in an error,
\* a normal return exactly when the child was launched and exited 0, and two
\* calls with the same process outcome have the same result wherever they
\* stand in the sequence of calls.
C7_OutcomeFromOwnProcessOnly ==
    /\ \A i \in 1..Len(calls) :
         /\ calls[i].result \in {"None", "CalledProcessError"} \cup LaunchErrors
         /\ calls[i].result = "None"
                <=> (calls[i].launch = "ok" /\ calls[i].rc = 0)
    /\ \A i, j \in 1..Len(calls) :
         (calls[i].launch = calls[j].launch /\ calls[i].rc = calls[j].rc)
            => calls[i].result = calls[j].result

C7_Witness ==
    /\ Len(calls) = 2
    /\ calls[1].result # "None"
    /\ calls[2].result = "None"

\* C8: at most one child launched by speak is alive at any time, and once a
\* call has returned or raised none is.
C8_ChildReleased ==
    /\ alive <= 1
    /\ ~InCall => (alive = 0 /\ child.status # "running")

C8_Witness == pc = "idle" /\ child.status = "exited" /\ alive = 0

HelloFromPythonAIAgent ==
    <<"H", "e", "l", "l", "o", " ", "f", "r", "o", "m", " ", "P", "y", "t",
      "h", "o", "n", " ", "A", "I", " ", "a", "g", "e", "n", "t">>

\* C9: run as a script, speak is called exactly once, with the text
\* "Hello from Python AI agent"; the script ends normally exactly when that
\* call returned, the child then having received that text, and ends
\* abnormally when the call raised.
C9_ScriptCallsSpeakOnce ==
    mode = "main" =>
        /\ ncalls <= 1
        /\ pc # "module" => (ncalls = 1 /\ text = HelloFromPythonAIAgent)
        /\ pc # "exit" => program = "running"
        /\ pc = "exit" =>
            /\ Len(calls) = 1
            /\ calls[1].result = "None" =>
                 /\ program = "exit0"
                 /\ child.status = "exited" /\ child.rc = 0
                 /\ child.argv[2] = HelloFromPythonAIAgent
            /\ calls[1].result # "None" => program = "exit1"

C9_Witness ==
    /\ mode = "main" /\ pc = "exit"
    /\ calls[1].result = "CalledProcessError"
    /\ program = "exit1"

\* C10: if the child eventually terminates (or the launch fails), a call
\* that has been entered eventually completes; and as long as the child
\* runs the call stays in its wait.
C10_CompletesWithChild ==
    /\ InCall ~> ~InCall
    /\ [](child.status = "running" => pc = "wait")

C10_Witness == pc = "check" /\ child.status = "exited" /\ child.rc = 255

====
